---- MODULE Spec2Model ----
(***************************************************************************)
(* Model of the `cats` string-concatenation library (src/src/traits.rs,    *)
(* src/src/lib.rs): the Show / Format two-pass protocol, the numeric       *)
(* formatter FormattedInt, the Rep formatter and the cat_len! / cat_write! *)
(* pipeline.                                                               *)
(*                                                                         *)
(* Machine words.  TLC integers are 32 bits wide, so a u64 is a sequence   *)
(* of NLimbs limbs, least significant first, each in 0 .. LimbBase-1.      *)
(* An i64 is the same sequence read as two's complement.  Arithmetic is    *)
(* done limb by limb and keeps the 64-bit width: a product or a sum that   *)
(* does not fit is reported with its wrapped value and an overflow flag.   *)
(*                                                                         *)
(* Text.  A char is its code point; a str is the sequence of its UTF-8     *)
(* bytes (what `as_bytes()` / `len()` of a Rust &str see); the sink keeps  *)
(* the bytes it accepted.                                                  *)
(***************************************************************************)
EXTENDS Integers, Sequences, FiniteSets, TLC

\* ------------------------------------------------------------------------
\* 64-bit words as limb sequences
\* ------------------------------------------------------------------------

LimbBase == 65536
LimbBits == 16
NLimbs == 4
WordBits == NLimbs * LimbBits

\* `let e = v; F(e)`: v is computed once, then used
Bind(v, F(_)) == CHOOSE r \in {F(e) : e \in {v}} : TRUE

Zeros(n) == [i \in 1..n |-> 0]

\* n as u64, for a small non-negative integer n (the `as u64` of a usize)
U64(n) == [i \in 1..NLimbs |-> IF i = 1 THEN n % LimbBase
                               ELSE IF i = 2 THEN n \div LimbBase ELSE 0]

IsZero(x) == \A v \in {x} : \A i \in 1..Len(v) : v[i] = 0

\* x > y, unsigned, limb by limb from the top
Gt(x, y) ==
    \E a \in {x}, b \in {y} :
        \E i \in 1..Len(a) : /\ a[i] > b[i]
                             /\ \A j \in (i + 1)..Len(a) : a[j] = b[j]

\* x * b + c for small b, c: Len(x) + 1 limbs, the last one the carry out
RECURSIVE MulAddFrom(_, _, _, _)
MulAddFrom(x, b, c, i) ==
    IF i > Len(x) THEN <<c>>
    ELSE Bind((x[i] * b) + c,
              LAMBDA t : <<t % LimbBase>> \o MulAddFrom(x, b, t \div LimbBase, i + 1))

MulAddRaw(x, b, c) == Bind(x, LAMBDA v : MulAddFrom(v, b, c, 1))

\* quotient and remainder of x by a small b, from the top limb down
RECURSIVE DivFrom(_, _, _, _)
DivFrom(x, b, i, rem) ==
    IF i = 0 THEN [q |-> <<>>, r |-> rem]
    ELSE Bind((rem * LimbBase) + x[i],
              LAMBDA t : Bind(DivFrom(x, b, i - 1, t % b),
                              LAMBDA lo : [q |-> Append(lo.q, t \div b), r |-> lo.r]))

DivMod(x, b) == Bind(x, LAMBDA v : DivFrom(v, b, Len(v), 0))

Div(x, b) == DivMod(x, b).q

Mod(x, b) == DivMod(x, b).r

\* Wrapping<u64> multiplication by a small factor
wrapping_mul(x, b) == SubSeq(MulAddRaw(x, b, 0), 1, NLimbs)

\* u64 `x * b + d`: the wrapped value, and whether it did not fit
MulAdd64(x, b, d) ==
    Bind(MulAddRaw(x, b, d),
         LAMBDA raw : [v |-> SubSeq(raw, 1, NLimbs), ovf |-> raw[NLimbs + 1] # 0])

\* two's complement: the sign bit, i64::MIN, negation (wrapping)
IsNeg(x) == x[NLimbs] >= LimbBase \div 2

I64Min == [i \in 1..NLimbs |-> IF i = NLimbs THEN LimbBase \div 2 ELSE 0]

wrapping_neg(x) ==
    Bind(x, LAMBDA v :
        SubSeq(MulAddRaw([i \in 1..NLimbs |-> LimbBase - 1 - v[i]], 1, 1), 1, NLimbs))

\* i64::abs: the value, and whether the negation overflowed (x = i64::MIN)
abs(x) ==
    Bind(x, LAMBDA v : IF IsNeg(v) THEN [v |-> wrapping_neg(v), ovf |-> v = I64Min]
                       ELSE [v |-> v, ovf |-> FALSE])

\* ------------------------------------------------------------------------
\* FormattedInt::num_digits and FormattedInt::reverse
\* ------------------------------------------------------------------------

\* the loop without its wraparound test: `while true { if limit > x {return}; .. }`
NumDigitsStep_NoWrapTest(f) ==
    IF Gt(f.limit, f.x)
    THEN [f EXCEPT !.pc = "ret"]
    ELSE [f EXCEPT !.length = f.length + 1, !.limit = wrapping_mul(f.limit, f.base)]

\* One evaluation of the `while` of num_digits on the frame
\* [pc, base, x, length, limit]: the guard, the early return, the body
NumDigitsStep(f) ==
    Bind(wrapping_mul(f.limit, f.base), LAMBDA next :
        IF Gt(next, f.limit)
        THEN IF Gt(f.limit, f.x)
             THEN [f EXCEPT !.pc = "ret"]
             ELSE [f EXCEPT !.length = f.length + 1, !.limit = next]
        ELSE [f EXCEPT !.pc = "ret"])

NumDigitsEntry(base, x) ==
    [pc |-> "loop", base |-> base, x |-> x, length |-> 1, limit |-> U64(base)]

\* n turns of the loop (fewer when it returns first)
RECURSIVE NumDigitsIter(_, _)
NumDigitsIter(f, n) ==
    Bind(<<f, n>>, LAMBDA a :
        IF a[2] = 0 \/ a[1].pc = "ret" THEN a[1]
        ELSE IF a[2] = 1 THEN NumDigitsStep(a[1])
        ELSE NumDigitsIter(NumDigitsIter(a[1], a[2] \div 2), a[2] - (a[2] \div 2)))

\* the loop, run until it returns
RECURSIVE NumDigitsRun(_)
NumDigitsRun(f) ==
    Bind(f, LAMBDA g : IF g.pc = "ret" THEN g.length
                       ELSE NumDigitsRun(NumDigitsIter(g, WordBits)))

num_digits(base, x) == NumDigitsRun(NumDigitsEntry(base, x))

\* One turn of the `while x != 0` of reverse on [x, r, ovf]; ovf records that
\* `(r * base) + (x % base)` did not fit
ReverseStep(base, s) ==
    Bind(DivMod(s.x, base), LAMBDA d :
        Bind(MulAdd64(s.r, base, d.r), LAMBDA m :
            [x |-> d.q, r |-> m.v, ovf |-> s.ovf \/ m.ovf]))

RECURSIVE ReverseIter(_, _, _)
ReverseIter(base, s, n) ==
    Bind(<<s, n>>, LAMBDA a :
        IF a[2] = 0 \/ IsZero(a[1].x) THEN a[1]
        ELSE IF a[2] = 1 THEN ReverseStep(base, a[1])
        ELSE ReverseIter(base, ReverseIter(base, a[1], a[2] \div 2),
                         a[2] - (a[2] \div 2)))

RECURSIVE ReverseRun(_, _)
ReverseRun(base, s) ==
    Bind(s, LAMBDA t : IF IsZero(t.x) THEN [v |-> t.r, ovf |-> t.ovf]
                       ELSE ReverseRun(base, ReverseIter(base, t, WordBits)))

reverse(base, x) == ReverseRun(base, [x |-> x, r |-> U64(0), ovf |-> FALSE])

\* ------------------------------------------------------------------------
\* Text and the byte sink
\* ------------------------------------------------------------------------

\* char::encode_utf8 / char::len_utf8
Utf8Bytes(c) ==
    IF c < 128 THEN <<c>>
    ELSE IF c < 2048 THEN <<192 + (c \div 64), 128 + (c % 64)>>
    ELSE IF c < 65536
         THEN <<224 + (c \div 4096), 128 + ((c \div 64) % 64), 128 + (c % 64)>>
         ELSE <<240 + (c \div 262144), 128 + ((c \div 4096) % 64),
                128 + ((c \div 64) % 64), 128 + (c % 64)>>

encode_utf8(c) == Bind(c, LAMBDA p : Utf8Bytes(p))

len_utf8(c) ==
    Bind(c, LAMBDA p : IF p < 128 THEN 1 ELSE IF p < 2048 THEN 2
                       ELSE IF p < 65536 THEN 3 ELSE 4)

\* The machine a write runs on: the sink (the bytes it took, the write calls
\* it saw, the call from which it fails (0: never), the capacity reserved
\* for it), the trace of Show::write / Format::write invocations made by the
\* pipeline and by Rep, whether an unchecked-width operation overflowed, and
\* whether the build panics on overflow (debug) or wraps (release).
Machine(failAt, cap, checks) ==
    [out |-> <<>>, calls |-> 0, failAt |-> failAt, cap |-> cap,
     log |-> <<>>, ovf |-> FALSE, checks |-> checks]

\* io::Result<usize> together with the machine the call leaves behind
\* (an error is named by the write call that raised it: e = 0 is no error)
Ok(n, m) == [tag |-> "Ok", n |-> n, e |-> 0, m |-> m]
Err(e, m) == [tag |-> "Err", n |-> 0, e |-> e, m |-> m]
Panic(m) == [tag |-> "Panic", n |-> 0, e |-> 0, m |-> m]

\* io::Write::write_all on the sink: an empty buffer makes no write call
WriteAll(m, buf) ==
    IF buf = <<>> THEN Ok(0, m)
    ELSE IF m.failAt # 0 /\ m.calls + 1 >= m.failAt
         THEN Err(m.calls + 1, [m EXCEPT !.calls = @ + 1])
         ELSE Ok(Len(buf), [m EXCEPT !.calls = @ + 1, !.out = @ \o buf])

write_all(m, buf) == Bind(<<m, buf>>, LAMBDA a : WriteAll(a[1], a[2]))

\* Utf8Write::push and Utf8Write::push_str
push(m, c) == write_all(m, encode_utf8(c))

push_str(m, s) == write_all(m, s)

\* `written += try!(call)`: acc is the result so far, r the call's result
Try(acc, r) == Bind(r, LAMBDA t : IF t.tag = "Ok" THEN Ok(acc.n + t.n, t.m) ELSE t)

\* ------------------------------------------------------------------------
\* FormattedInt: [prefix, suffix, digits, min_len, sign]
\* ------------------------------------------------------------------------

sign_len(f) == IF f.sign \in {"Plus", "Space"} THEN 1 ELSE 0

with_fanciness(f, s) ==
    Bind(s, LAMBDA n :
        LET padded == IF n < f.min_len THEN f.min_len ELSE n
        IN  padded + Len(f.prefix) + Len(f.suffix) + sign_len(f))

min(a, b) == IF a < b THEN a ELSE b

Format_u64_len(f, x) == with_fanciness(f, num_digits(Len(f.digits), x))

\* `for _ in 0..padding { written += try!(push(digits[0])) }`: one turn, and
\* `turns` turns; a turn after a failed one does not happen (try! returned)
PadStep(acc, f) == Try(acc, push(acc.m, f.digits[1]))

RECURSIVE PadLoop(_, _, _)
PadLoop(acc, f, turns) ==
    Bind(<<acc, turns>>, LAMBDA a :
        IF a[2] = 0 \/ a[1].tag # "Ok" THEN a[1]
        ELSE IF a[2] = 1 THEN PadStep(a[1], f)
        ELSE PadLoop(PadLoop(a[1], f, a[2] \div 2), f, a[2] - (a[2] \div 2)))

\* `for _ in 0..num_digits { written += try!(push(digits[r % base])); r /= base }`
\* on [acc, r]
DigitStep(s, f) ==
    Bind(DivMod(s.r, Len(f.digits)), LAMBDA d :
        [acc |-> Try(s.acc, push(s.acc.m, f.digits[d.r + 1])), r |-> d.q])

RECURSIVE DigitIter(_, _, _)
DigitIter(s, f, turns) ==
    Bind(<<s, turns>>, LAMBDA a :
        IF a[2] = 0 \/ a[1].acc.tag # "Ok" THEN a[1]
        ELSE IF a[2] = 1 THEN DigitStep(a[1], f)
        ELSE DigitIter(DigitIter(a[1], f, a[2] \div 2), f, a[2] - (a[2] \div 2)))

DigitLoop(acc, f, r, turns) == DigitIter([acc |-> acc, r |-> r], f, turns).acc

\* the sign glyph
WriteSign(f, m) ==
    CASE f.sign = "Plus"  -> Try(Ok(0, m), push(m, 43))
      [] f.sign = "Space" -> Try(Ok(0, m), push(m, 32))
      [] OTHER            -> Ok(0, m)

\* the digits, after sign, prefix and padding went out with result a3;
\* reverse panics in a checked build when it overflows
WriteDigits(f, x, a3, nd) ==
    Bind(reverse(Len(f.digits), x), LAMBDA rv :
        Bind([a3.m EXCEPT !.ovf = @ \/ rv.ovf], LAMBDA m3 :
            IF rv.ovf /\ m3.checks THEN Panic(m3)
            ELSE IF IsZero(rv.v) THEN Try(a3, push(m3, f.digits[1]))
            ELSE DigitLoop(Ok(a3.n, m3), f, rv.v, nd)))

WriteU64(f, x, m) ==
    Bind(num_digits(Len(f.digits), x), LAMBDA nd :
    Bind(WriteSign(f, m), LAMBDA a1 :
    Bind(IF a1.tag # "Ok" THEN a1 ELSE Try(a1, push_str(a1.m, f.prefix)), LAMBDA a2 :
    Bind(PadLoop(a2, f, f.min_len - min(nd, f.min_len)), LAMBDA a3 :
    Bind(IF a3.tag # "Ok" THEN a3 ELSE WriteDigits(f, x, a3, nd), LAMBDA a4 :
         IF a4.tag # "Ok" THEN a4 ELSE Try(a4, push_str(a4.m, f.suffix)))))))

Format_u64_write(f, x, m) == Bind(<<f, x, m>>, LAMBDA a : WriteU64(a[1], a[2], a[3]))

LenOk(n, ovf) == [tag |-> "Ok", n |-> n, ovf |-> ovf]

\* Format<i64>::len, a length that may have panicked: [tag, n, ovf];
\* x.abs() panics on i64::MIN in a checked build
Format_i64_len(f, x, checks) ==
    Bind(abs(x), LAMBDA a :
        IF a.ovf /\ checks THEN [tag |-> "Panic", n |-> 0, ovf |-> TRUE]
        ELSE IF f.sign = "Empty" /\ IsNeg(x)
             THEN LenOk(Format_u64_len(f, a.v) + 1, a.ovf)
             ELSE LenOk(Format_u64_len(f, a.v), a.ovf))

\* the negative arm without `sign: SignPolicy::Empty`: the policy is kept
WriteNegative_KeepsPolicy(f, x, m) ==
    Bind(push(m, 45), LAMBDA a1 :
        IF a1.tag # "Ok" THEN a1
        ELSE Bind(abs(x), LAMBDA a :
                 Bind([a1.m EXCEPT !.ovf = @ \/ a.ovf], LAMBDA m1 :
                     IF a.ovf /\ m1.checks THEN Panic(m1)
                     ELSE Try(a1, Format_u64_write(f, a.v, m1)))))

\* the negative arm: '-', then the magnitude under a descriptor with sign Empty
WriteNegative(f, x, m) ==
    Bind(push(m, 45), LAMBDA a1 :
        IF a1.tag # "Ok" THEN a1
        ELSE Bind(abs(x), LAMBDA a :
                 Bind([a1.m EXCEPT !.ovf = @ \/ a.ovf], LAMBDA m1 :
                     IF a.ovf /\ m1.checks THEN Panic(m1)
                     ELSE Try(a1, Format_u64_write([f EXCEPT !.sign = "Empty"],
                                                   a.v, m1)))))

Format_i64_write(f, x, m) ==
    Bind(<<f, x, m>>, LAMBDA a :
        IF IsNeg(a[2]) THEN WriteNegative(a[1], a[2], a[3])
        ELSE Format_u64_write(a[1], a[2], a[3]))

DECIMAL_DIGITS == <<48, 49, 50, 51, 52, 53, 54, 55, 56, 57>>

HEX_DIGITS == <<48, 49, 50, 51, 52, 53, 54, 55, 56, 57, 97, 98, 99, 100, 101, 102>>

HEX == [prefix |-> <<>>, suffix |-> <<>>, digits |-> HEX_DIGITS,
        min_len |-> 0, sign |-> "Empty"]

\* the descriptor Show for u64 / i64 builds
ShowInt == [prefix |-> <<>>, suffix |-> <<>>, digits |-> DECIMAL_DIGITS,
            min_len |-> 0, sign |-> "Empty"]

\* ------------------------------------------------------------------------
\* Show values: [t |-> "str", s], [t |-> "char", c], [t |-> "u64", x],
\* [t |-> "i64", x], [t |-> "Option", some, v]
\* ------------------------------------------------------------------------

Show_len_plain(v, checks) ==
    CASE v.t = "str"  -> LenOk(Len(v.s), FALSE)
      [] v.t = "char" -> LenOk(len_utf8(v.c), FALSE)
      [] v.t = "u64"  -> LenOk(Format_u64_len(ShowInt, v.x), FALSE)
      [] v.t = "i64"  -> Format_i64_len(ShowInt, v.x, checks)

Show_write_plain(v, m) ==
    CASE v.t = "str"  -> push_str(m, v.s)
      [] v.t = "char" -> push(m, v.c)
      [] v.t = "u64"  -> Format_u64_write(ShowInt, v.x, m)
      [] v.t = "i64"  -> Format_i64_write(ShowInt, v.x, m)

Show_len(v, checks) ==
    IF v.t = "Option"
    THEN IF v.some THEN Show_len_plain(v.v, checks) ELSE LenOk(0, FALSE)
    ELSE Show_len_plain(v, checks)

Show_write(v, m) ==
    IF v.t = "Option"
    THEN IF v.some THEN Show_write_plain(v.v, m) ELSE Ok(0, m)
    ELSE Show_write_plain(v, m)

\* ------------------------------------------------------------------------
\* Rep(n)
\* ------------------------------------------------------------------------

Rep_len(n, v, checks) ==
    Bind(Show_len(v, checks), LAMBDA l :
        IF l.tag = "Ok" THEN LenOk(n * l.n, l.ovf) ELSE l)

\* `for _ in 0..self.0 { len += try!(Show::write(t, w)) }`, turn i of n
RECURSIVE RepLoop(_, _, _, _)
RepLoop(acc, v, i, n) ==
    Bind(<<acc, i>>, LAMBDA a :
        IF a[2] > n THEN a[1]
        ELSE Bind(Try(a[1], Show_write(v, [a[1].m EXCEPT
                                             !.log = Append(@, <<"inner", a[2]>>)])),
                  LAMBDA r : IF r.tag # "Ok" THEN r ELSE RepLoop(r, v, a[2] + 1, n)))

Rep_write(n, v, m) == RepLoop(Ok(0, m), v, 1, n)

\* ------------------------------------------------------------------------
\* The pipeline: elements are [kind |-> "show", v], [kind |-> "int", f, ty, x]
\* (a FormattedInt ; u64 or i64 pair) and [kind |-> "rep", n, v]
\* ------------------------------------------------------------------------

\* Show::len(&obj) / Format::len(&fmt, &obj) of one element
ElemLen(e, checks) ==
    CASE e.kind = "show" -> Show_len(e.v, checks)
      [] e.kind = "int"  -> IF e.ty = "u64" THEN LenOk(Format_u64_len(e.f, e.x), FALSE)
                            ELSE Format_i64_len(e.f, e.x, checks)
      [] e.kind = "rep"  -> Rep_len(e.n, e.v, checks)

\* Show::write(&obj, w) / Format::write(&fmt, &obj, w) of one element
ElemWrite(e, m) ==
    CASE e.kind = "show" -> Show_write(e.v, m)
      [] e.kind = "int"  -> IF e.ty = "u64" THEN Format_u64_write(e.f, e.x, m)
                            ELSE Format_i64_write(e.f, e.x, m)
      [] e.kind = "rep"  -> Rep_write(e.n, e.v, m)

\* `$len += len(element i); ...` over the argument list
RECURSIVE produce_len_code(_, _, _, _)
produce_len_code(len, elems, i, checks) ==
    Bind(<<len, ElemLen(elems[i], checks), i>>, LAMBDA a :
        Bind(IF a[2].tag = "Ok" THEN LenOk(a[1].n + a[2].n, a[1].ovf \/ a[2].ovf)
             ELSE a[2],
             LAMBDA t : IF t.tag # "Ok" \/ a[3] = Len(elems) THEN t
                        ELSE produce_len_code(t, elems, a[3] + 1, checks)))

cat_len(elems, checks) == produce_len_code(LenOk(0, FALSE), elems, 1, checks)

\* the arms with `Err(_) => produce_write_code!($written, $w, $($rest)*)`: a
\* failure of an element that is not the last is dropped
RECURSIVE produce_write_code_DropsErr(_, _, _, _)
produce_write_code_DropsErr(written, m, elems, i) ==
    Bind(<<written, i, ElemWrite(elems[i], [m EXCEPT !.log = Append(@, <<"elem", i>>)])>>,
         LAMBDA a :
            IF a[2] = Len(elems)
            THEN IF a[3].tag = "Ok" THEN Ok(a[3].n + a[1], a[3].m) ELSE a[3]
            ELSE IF a[3].tag = "Panic" THEN a[3]
                 ELSE produce_write_code_DropsErr(
                          IF a[3].tag = "Ok" THEN a[3].n + a[1] ELSE a[1],
                          a[3].m, elems, a[2] + 1))

\* element i of the argument list, `written` bytes so far
RECURSIVE produce_write_code(_, _, _, _)
produce_write_code(written, m, elems, i) ==
    Bind(<<written, i, ElemWrite(elems[i], [m EXCEPT !.log = Append(@, <<"elem", i>>)])>>,
         LAMBDA a :
            IF a[2] = Len(elems)
            THEN IF a[3].tag = "Ok" THEN Ok(a[3].n + a[1], a[3].m) ELSE a[3]
            ELSE IF a[3].tag = "Ok"
                 THEN produce_write_code(a[3].n + a[1], a[3].m, elems, a[2] + 1)
                 ELSE a[3])

cat_write(m, elems) == produce_write_code(0, m, elems, 1)

\* String::from_utf8's test: every lead byte is followed by the continuation
\* bytes it announces, and every continuation byte belongs to a lead
ContinuationByte(b) == b >= 128 /\ b < 192

Utf8Width(b) == IF b < 128 THEN 1 ELSE IF b >= 194 /\ b < 224 THEN 2
                ELSE IF b >= 224 /\ b < 240 THEN 3
                ELSE IF b >= 240 /\ b < 245 THEN 4 ELSE 0

from_utf8_ok(bytes) ==
    \A s \in {bytes} : \A i \in 1..Len(s) :
        IF ContinuationByte(s[i])
        THEN \E j \in 1..3 : /\ i - j >= 1
                             /\ ~ContinuationByte(s[i - j])
                             /\ Utf8Width(s[i - j]) > j
                             /\ \A k \in (i - j + 1)..i : ContinuationByte(s[k])
        ELSE /\ Utf8Width(s[i]) > 0
             /\ i + Utf8Width(s[i]) - 1 <= Len(s)
             /\ \A k \in (i + 1)..(i + Utf8Width(s[i]) - 1) : ContinuationByte(s[k])

\* scat!: [tag, s, len, m]: the String, the length pass's total and the
\* buffer; a panic when a pass panics or the bytes are not UTF-8
scat(elems, checks) ==
    Bind(cat_len(elems, checks), LAMBDA len :
        IF len.tag # "Ok"
        THEN [tag |-> "Panic", s |-> <<>>, len |-> 0, m |-> Machine(0, 0, checks)]
        ELSE Bind(cat_write([Machine(0, len.n, checks) EXCEPT !.ovf = len.ovf], elems),
                  LAMBDA r :
                     IF r.tag # "Ok" \/ ~from_utf8_ok(r.m.out)
                     THEN [tag |-> "Panic", s |-> <<>>, len |-> len.n, m |-> r.m]
                     ELSE [tag |-> "Ok", s |-> r.m.out, len |-> len.n, m |-> r.m]))

\* ------------------------------------------------------------------------
\* The inputs the calls are made with
\* ------------------------------------------------------------------------

MaxMinLen == 4
MaxElems == 3
MaxRep == 3
MaxFailAt == 3

\* x * b^k (wrapping), floor(x / b^k), x - 1
RECURSIVE MulPow(_, _, _)
MulPow(x, b, k) ==
    IF k = 0 THEN x
    ELSE IF k = 1 THEN wrapping_mul(x, b)
    ELSE CHOOSE r \in {MulPow(y, b, k - (k \div 2)) : y \in {MulPow(x, b, k \div 2)}} : TRUE

RECURSIVE DivPow(_, _, _)
DivPow(x, b, k) ==
    IF k = 0 THEN x
    ELSE IF k = 1 THEN Div(x, b)
    ELSE CHOOSE r \in {DivPow(y, b, k - (k \div 2)) : y \in {DivPow(x, b, k \div 2)}} : TRUE

Pow(b, k) == MulPow(U64(1), b, k)

Pred(x) == wrapping_neg(SubSeq(MulAddRaw(wrapping_neg(x), 1, 1), 1, NLimbs))

U64Max == [i \in 1..NLimbs |-> LimbBase - 1]

I64Max == Pred(I64Min)

\* the exponents k >= 1 with b^k representable in a u64
Exponents(b) == {k \in 1..WordBits : ~IsZero(DivPow(U64Max, b, k))}

BIN_DIGITS == <<48, 49>>

\* three two-byte digits; a one-, a two-, a three- and a four-byte digit
GREEK_DIGITS == <<945, 946, 947>>

MIXED_DIGITS == <<48, 233, 8364, 128512>>

Alphabets == {BIN_DIGITS, GREEK_DIGITS, MIXED_DIGITS, DECIMAL_DIGITS, HEX_DIGITS}

\* prefix / suffix pairs: none, "0x" / none, a three-byte arrow / "h"
Fancies == {<< <<>>, <<>> >>, << <<48, 120>>, <<>> >>, << <<226, 134, 146>>, <<104>> >>}

SignPolicy == {"Plus", "Space", "Empty"}

Formatters ==
    {[prefix |-> p[1], suffix |-> p[2], digits |-> d, min_len |-> n, sign |-> s] :
        p \in Fancies, d \in Alphabets, n \in 0..MaxMinLen, s \in SignPolicy}

\* descriptors without prefix and suffix, unpadded or padded to the bound
PlainFormatters == {f \in Formatters : f.prefix = <<>> /\ f.min_len \in {0, MaxMinLen}}

SmallU64 == {U64(0), U64(5), U64(7), U64(8), U64(12), U64(255)}

LargeU64 == {Pow(10, 18), Pow(10, 19), Pow(2, 60), I64Max, I64Min, U64Max}

SmallI64 == {U64(0), U64(5), U64(7), U64(255), wrapping_neg(U64(1)),
             wrapping_neg(U64(5)), wrapping_neg(U64(255))}

LargeI64 == {I64Max, wrapping_neg(Pow(10, 18)), wrapping_neg(I64Max), I64Min}

\* every descriptor on the small values, the plain ones on the large values
U64Inputs == (Formatters \X SmallU64) \cup (PlainFormatters \X LargeU64)

I64Inputs == (Formatters \X SmallI64) \cup (PlainFormatters \X LargeI64)

Radixes == {2, 3, 5, 7, 10, 16}

\* the magnitudes num_digits is stepped on: around every power of the radix
NdValues(b) ==
    {U64(0), U64Max, I64Min, I64Max}
        \cup {Pow(b, k) : k \in Exponents(b)}
        \cup {Pred(Pow(b, k)) : k \in Exponents(b)}

Str(s) == [t |-> "str", s |-> s]
Char(c) == [t |-> "char", c |-> c]
Some(v) == [t |-> "Option", some |-> TRUE, v |-> v]
None == [t |-> "Option", some |-> FALSE, v |-> Str(<<>>)]

ShowValues ==
    {Str(<<40>>), Str(<<>>), Char(120), Char(8364), [t |-> "u64", x |-> U64(12)],
     [t |-> "u64", x |-> U64Max], [t |-> "i64", x |-> wrapping_neg(U64(7))],
     [t |-> "i64", x |-> I64Min], Some(Char(97)), None}

Elements ==
    {[kind |-> "show", v |-> Str(<<40>>)],
     [kind |-> "show", v |-> Char(8364)],
     [kind |-> "int", f |-> HEX, ty |-> "u64", x |-> U64(255)],
     [kind |-> "int", f |-> [HEX EXCEPT !.digits = GREEK_DIGITS], ty |-> "i64",
      x |-> wrapping_neg(U64(5))],
     [kind |-> "rep", n |-> 2, v |-> Char(120)]}

RECURSIVE Lists(_)
Lists(n) == IF n = 0 THEN {<<>>}
            ELSE LET shorter == Lists(n - 1)
                 IN  shorter \cup {Append(l, e) : l \in {k \in shorter : Len(k) = n - 1},
                                                  e \in Elements}

\* cat_len! / cat_write! take at least one argument
ElementLists == Lists(MaxElems) \ {<<>>}

\* ------------------------------------------------------------------------
\* The calls.  The library keeps no state between calls: a call is made from
\* the idle state with inputs of the caller's choice, leaves its inputs and
\* what it returned, and Return drops them.
\* ------------------------------------------------------------------------

VARIABLES
    op,      \* the call made last: "idle" when none is pending
    args,    \* its inputs
    lenRet,  \* what its length pass returned: [tag, n, ovf]
    wrRet,   \* what its write pass returned: [tag, n, e, m]
    nd       \* the frame of num_digits while it is stepped

vars == <<op, args, lenRet, wrRet, nd>>

NoFrame == [pc |-> "idle", base |-> 2, x |-> U64(0), length |-> 1, limit |-> U64(2)]

Init ==
    /\ op = "idle"
    /\ args = <<>>
    /\ lenRet = LenOk(0, FALSE)
    /\ wrRet = Ok(0, Machine(0, 0, FALSE))
    /\ nd = NoFrame

\* Format::len and Format::write of a FormattedInt on a u64, into a Vec<u8>
FormatU64 ==
    /\ op = "idle"
    /\ \E in \in U64Inputs, checks \in BOOLEAN :
         /\ op' = "Format_u64"
         /\ args' = [f |-> in[1], x |-> in[2], checks |-> checks]
         /\ lenRet' = LenOk(Format_u64_len(in[1], in[2]), FALSE)
         /\ wrRet' = Format_u64_write(in[1], in[2], Machine(0, 0, checks))
    /\ UNCHANGED nd

\* Format::len and Format::write of a FormattedInt on an i64, into a Vec<u8>
FormatI64 ==
    /\ op = "idle"
    /\ \E in \in I64Inputs, checks \in BOOLEAN :
         /\ op' = "Format_i64"
         /\ args' = [f |-> in[1], x |-> in[2], checks |-> checks]
         /\ lenRet' = Format_i64_len(in[1], in[2], checks)
         /\ wrRet' = Format_i64_write(in[1], in[2], Machine(0, 0, checks))
    /\ UNCHANGED nd

\* Show::len and Show::write of a value, into a sink that may fail
ShowCall ==
    /\ op = "idle"
    /\ \E v \in ShowValues, failAt \in 0..MaxFailAt, checks \in BOOLEAN :
         /\ op' = "Show"
         /\ args' = [v |-> v, failAt |-> failAt, checks |-> checks]
         /\ lenRet' = Show_len(v, checks)
         /\ wrRet' = Show_write(v, Machine(failAt, 0, checks))
    /\ UNCHANGED nd

\* Format::len and Format::write of Rep(n) on a Show value
RepCall ==
    /\ op = "idle"
    /\ \E n \in 0..MaxRep, v \in ShowValues, failAt \in 0..MaxFailAt, checks \in BOOLEAN :
         /\ op' = "Rep"
         /\ args' = [n |-> n, v |-> v, failAt |-> failAt, checks |-> checks]
         /\ lenRet' = Rep_len(n, v, checks)
         /\ wrRet' = Rep_write(n, v, Machine(failAt, 0, checks))
    /\ UNCHANGED nd

\* cat_len! and cat_write! on an argument list, into a sink that may fail
CatWrite ==
    /\ op = "idle"
    /\ \E elems \in ElementLists, failAt \in 0..MaxFailAt, checks \in BOOLEAN :
         /\ op' = "cat_write"
         /\ args' = [elems |-> elems, failAt |-> failAt, checks |-> checks]
         /\ lenRet' = cat_len(elems, checks)
         /\ wrRet' = cat_write(Machine(failAt, 0, checks), elems)
    /\ UNCHANGED nd

\* scat! on an argument list
Scat ==
    /\ op = "idle"
    /\ \E elems \in ElementLists, checks \in BOOLEAN :
         LET r == scat(elems, checks)
         IN  /\ op' = "scat"
             /\ args' = [elems |-> elems, checks |-> checks]
             /\ lenRet' = [tag |-> r.tag, n |-> r.len, ovf |-> r.m.ovf]
             /\ wrRet' = [tag |-> r.tag, n |-> Len(r.s), e |-> 0, m |-> r.m]
    /\ UNCHANGED nd

\* the caller is done with the results
Return ==
    /\ op \notin {"idle", "num_digits"}
    /\ op' = "idle"
    /\ args' = <<>>
    /\ lenRet' = LenOk(0, FALSE)
    /\ wrRet' = Ok(0, Machine(0, 0, FALSE))
    /\ UNCHANGED nd

\* num_digits, one turn of its loop at a time
NdCall ==
    /\ op = "idle"
    /\ \E b \in Radixes : \E x \in NdValues(b) :
         nd' = NumDigitsEntry(b, x)
    /\ op' = "num_digits"
    /\ UNCHANGED <<args, lenRet, wrRet>>

NdIter ==
    /\ op = "num_digits"
    /\ nd.pc = "loop"
    /\ nd' = NumDigitsStep(nd)
    /\ UNCHANGED <<op, args, lenRet, wrRet>>

NdReturn ==
    /\ op = "num_digits"
    /\ nd.pc = "ret"
    /\ nd' = NoFrame
    /\ op' = "idle"
    /\ UNCHANGED <<args, lenRet, wrRet>>

Next ==
    \/ FormatU64
    \/ FormatI64
    \/ ShowCall
    \/ RepCall
    \/ CatWrite
    \/ Scat
    \/ Return

Spec == Init /\ [][Next]_vars

\* num_digits alone, stepped turn by turn
NdNext ==
    \/ NdCall
    \/ NdIter
    \/ NdReturn

\* num_digits is a sequential loop: once entered, its next turn is taken
SpecNumDigits == Init /\ [][NdNext]_vars /\ WF_vars(NdIter)

\* ------------------------------------------------------------------------
\* What the text should be: positional notation, computed by division alone
\* ------------------------------------------------------------------------

\* the base-b digits of x, most significant first (<<0>> for zero)
RefDigitStep(b, s) ==
    Bind(DivMod(s.x, b), LAMBDA d : [x |-> d.q, ds |-> <<d.r>> \o s.ds])

RECURSIVE RefDigitIter(_, _, _)
RefDigitIter(b, s, n) ==
    Bind(<<s, n>>, LAMBDA a :
        IF a[2] = 0 \/ IsZero(a[1].x) THEN a[1]
        ELSE IF a[2] = 1 THEN RefDigitStep(b, a[1])
        ELSE RefDigitIter(b, RefDigitIter(b, a[1], a[2] \div 2), a[2] - (a[2] \div 2)))

RefDigits(b, x) ==
    IF IsZero(x) THEN <<0>> ELSE RefDigitIter(b, [x |-> x, ds |-> <<>>], WordBits).ds

\* the numeral ds read back in base b, as a number of one limb more than a u64
RECURSIVE ReadBackFrom(_, _, _, _)
ReadBackFrom(b, ds, i, acc) ==
    IF i > Len(ds) THEN acc
    ELSE Bind(SubSeq(MulAddRaw(acc, b, ds[i]), 1, NLimbs + 1),
              LAMBDA v : ReadBackFrom(b, ds, i + 1, v))

ReadBack(b, ds) == Bind(ds, LAMBDA v : ReadBackFrom(b, v, 1, Zeros(NLimbs + 1)))

\* the UTF-8 text of the digits ds[lo..hi] in the alphabet
RECURSIVE DigitText(_, _, _, _)
DigitText(alphabet, ds, lo, hi) ==
    Bind(<<lo, hi>>, LAMBDA a :
        IF a[1] > a[2] THEN <<>>
        ELSE IF a[1] = a[2] THEN Utf8Bytes(alphabet[ds[a[1]] + 1])
        ELSE DigitText(alphabet, ds, a[1], (a[1] + a[2]) \div 2)
                 \o DigitText(alphabet, ds, ((a[1] + a[2]) \div 2) + 1, a[2]))

Numeral(alphabet, x) ==
    Bind(RefDigits(Len(alphabet), x), LAMBDA ds : DigitText(alphabet, ds, 1, Len(ds)))

\* n copies of the text t
Copies(t, n) == [i \in 1..(n * Len(t)) |-> t[((i - 1) % Len(t)) + 1]]

SignText(sign) == CASE sign = "Plus" -> <<43>> [] sign = "Space" -> <<32>> [] OTHER -> <<>>

\* sign, prefix, padding to min_len, digits, suffix
FieldText(f, x) ==
    Bind(Numeral(f.digits, x), LAMBDA num :
        Bind(Len(RefDigits(Len(f.digits), x)), LAMBDA count :
            SignText(f.sign) \o f.prefix
                \o Copies(Utf8Bytes(f.digits[1]), f.min_len - min(count, f.min_len))
                \o num \o f.suffix))

IsPrefixOf(p, t) == Len(p) <= Len(t) /\ SubSeq(t, 1, Len(p)) = p

FormatReturned == op \in {"Format_u64", "Format_i64"}

BothOk == lenRet.tag = "Ok" /\ wrRet.tag = "Ok"

\* ------------------------------------------------------------------------
\* C1  Length/write consistency of the numeric formatter: whenever
\* Format::len and Format::write of a FormattedInt both return (u64 or i64
\* value, sink that never fails), the byte count write returns is the value
\* len returned.
\* ------------------------------------------------------------------------
C1_LenEqualsWritten == (FormatReturned /\ BothOk) => wrRet.n = lenRet.n

\* ------------------------------------------------------------------------
\* C2  Two-pass concatenation: on a sink that never fails the write pass
\* returns the total the length pass computed, and the buffer scat! reserved
\* with that capacity is filled exactly, without growing.
\* ------------------------------------------------------------------------
C2_TwoPassTotalsAgree ==
    /\ (op = "cat_write" /\ args.failAt = 0 /\ BothOk) => wrRet.n = lenRet.n
    /\ (op = "scat" /\ wrRet.tag = "Ok") => Len(wrRet.m.out) = wrRet.m.cap

\* ------------------------------------------------------------------------
\* C3  Radix correctness: with min_len = 0, no prefix, no suffix and sign
\* Empty, Format::write of a u64 m sends the base-b numeral of m, most
\* significant digit first and without a leading zero digit, and the numeral
\* read back in base b is m.
\* ------------------------------------------------------------------------
BareDescriptor(f) ==
    f.min_len = 0 /\ f.prefix = <<>> /\ f.suffix = <<>> /\ f.sign = "Empty"

C3_RadixCorrect ==
    (op = "Format_u64" /\ BareDescriptor(args.f)) =>
        LET b  == Len(args.f.digits)
            ds == RefDigits(b, args.x)
        IN  /\ wrRet.tag = "Ok"
            /\ wrRet.m.out = Numeral(args.f.digits, args.x)
            /\ (ds[1] = 0 => ds = <<0>>)
            /\ ReadBack(b, ds) = args.x \o <<0>>

\* ------------------------------------------------------------------------
\* C4  Sign policies on the signed path: what Format<i64>::write sends
\* starts with '+' (Plus), ' ' (Space) or nothing (Empty) for v >= 0 and with
\* one '-' for v < 0 under every policy; after that sign position come the
\* prefix, digits of the alphabet only, and the suffix: no second sign glyph.
\* ------------------------------------------------------------------------
SignGlyph(f, v) == IF IsNeg(v) THEN <<45>> ELSE SignText(f.sign)

DigitBytes(f) == UNION {{Utf8Bytes(c)[i] : i \in 1..len_utf8(c)} : c \in {f.digits[j] : j \in 1..Len(f.digits)}}

C4_OneSignPosition ==
    op = "Format_i64" =>
        LET f    == args.f
            g    == SignGlyph(f, args.x)
            out  == wrRet.m.out
            from == Len(g) + Len(f.prefix) + 1
            to   == Len(out) - Len(f.suffix)
        IN  /\ IsPrefixOf(g, out)
            /\ wrRet.tag = "Ok" =>
                 /\ IsPrefixOf(g \o f.prefix, out)
                 /\ from <= to
                 /\ \A i \in from..to : out[i] \in DigitBytes(f)
                 /\ SubSeq(out, to + 1, Len(out)) = f.suffix

C4_Witness ==
    /\ op = "Format_i64"
    /\ args.x = wrapping_neg(U64(5))
    /\ args.f = [ShowInt EXCEPT !.sign = "Plus"]
    /\ wrRet.tag = "Ok"
    /\ wrRet.m.out = <<45, 53>>

\* ------------------------------------------------------------------------
\* C5  Negative boundary: formatting i64::MIN through the signed path
\* (Format<i64> and Show for i64) overflows nowhere and sends '-' and then
\* the field of the magnitude 2^63 in the descriptor's radix.
\* ------------------------------------------------------------------------
MinText(f) == <<45>> \o FieldText([f EXCEPT !.sign = "Empty"], I64Min)

C5_MinWithoutOverflow ==
    /\ (op = "Format_i64" /\ args.x = I64Min) =>
          /\ BothOk
          /\ ~lenRet.ovf /\ ~wrRet.m.ovf
          /\ wrRet.m.out = MinText(args.f)
    /\ (op = "Show" /\ args.failAt = 0 /\ args.v = [t |-> "i64", x |-> I64Min]) =>
          /\ BothOk
          /\ ~lenRet.ovf /\ ~wrRet.m.ovf
          /\ wrRet.m.out = MinText(ShowInt)

\* ------------------------------------------------------------------------
\* C6  Failure propagation in the pipeline: when cat_write! returns a sink
\* failure, it is the failure of the first write call the sink refused, the
\* sink saw no write call after it, the elements 1..k were the only ones
\* written to (k the element that failed), and the sink holds the text of
\* the elements before k, in order, and then a part of element k's text.
\* ------------------------------------------------------------------------

\* what element e sends when written alone to a sink that never fails
Rendering(e, checks) == ElemWrite(e, Machine(0, 0, checks)).m.out

RECURSIVE Renderings(_, _, _)
Renderings(elems, k, checks) ==
    IF k = 0 THEN <<>>
    ELSE Renderings(elems, k - 1, checks) \o Rendering(elems[k], checks)

\* the elements whose write was invoked, in the order of the invocations
Attempted(log) == SelectSeq(log, LAMBDA l : l[1] = "elem")

FirstElements(k) == [i \in 1..k |-> <<"elem", i>>]

C6_FailureStopsPipeline ==
    (op = "cat_write" /\ wrRet.tag = "Err") =>
        LET k      == Len(Attempted(wrRet.m.log))
            before == Renderings(args.elems, k - 1, args.checks)
            out    == wrRet.m.out
        IN  /\ wrRet.e = args.failAt
            /\ wrRet.m.calls = args.failAt
            /\ k \in 1..Len(args.elems)
            /\ Attempted(wrRet.m.log) = FirstElements(k)
            /\ IsPrefixOf(before, out)
            /\ IsPrefixOf(out, before \o Rendering(args.elems[k], args.checks))
            /\ out # before \o Rendering(args.elems[k], args.checks)

C6_Witness ==
    /\ op = "cat_write"
    /\ wrRet.tag = "Err"
    /\ Len(args.elems) = 3
    /\ Len(Attempted(wrRet.m.log)) = 2
    /\ wrRet.m.out # <<>>

\* ------------------------------------------------------------------------
\* C7  Repeat formatter: for every count n and Show value v, when
\* Rep(n).write returns Ok, exactly n inner writes were made, the sink holds
\* n copies of the value's text and the total is what Rep(n).len returns,
\* n * Show::len; when it returns a sink failure, it
\* is the failure of the first refused write call, no inner write and no
\* write call came after it, and the text of the inner writes before it
\* stays in the sink.
\* ------------------------------------------------------------------------
InnerWrites(log) == Len(SelectSeq(log, LAMBDA l : l[1] = "inner"))

ShowText(v, checks) == Show_write(v, Machine(0, 0, checks)).m.out

C7_RepeatStopsAtFailure ==
    op = "Rep" =>
        LET text == ShowText(args.v, args.checks)
            k    == InnerWrites(wrRet.m.log)
            out  == wrRet.m.out
        IN  /\ wrRet.tag = "Ok" =>
                 /\ k = args.n
                 /\ out = Copies(text, args.n)
                 /\ lenRet.tag = "Ok"
                 /\ wrRet.n = lenRet.n
                 /\ lenRet.n = args.n * Show_len(args.v, args.checks).n
            /\ wrRet.tag = "Err" =>
                 /\ wrRet.e = args.failAt
                 /\ wrRet.m.calls = args.failAt
                 /\ k \in 1..args.n
                 /\ IsPrefixOf(Copies(text, k - 1), out)
                 /\ IsPrefixOf(out, Copies(text, k))
                 /\ out # Copies(text, k)

\* ------------------------------------------------------------------------
\* C8  Digit count: num_digits returns the number of base-b digits of m
\* (1 for zero), for every u64 m, also at and above the largest power of b
\* that fits in a u64.
\* ------------------------------------------------------------------------
C8_DigitCount ==
    (op = "num_digits" /\ nd.pc = "ret") => nd.length = Len(RefDigits(nd.base, nd.x))

\* ------------------------------------------------------------------------
\* C9  Write sequence and padding on the unsigned path: Format::write of a
\* u64 m sends the sign glyph, the prefix, min_len - min(digit count, min_len)
\* copies of digits[0], the digits of m and the suffix, in this order and
\* nothing else.
\* ------------------------------------------------------------------------
C9_WriteSequence ==
    op = "Format_u64" => wrRet.m.out = FieldText(args.f, args.x)

\* ------------------------------------------------------------------------
\* C10  Termination of digit counting: every turn of the num_digits loop
\* that does not return raises the threshold, a u64, and counts one digit
\* more; so the loop returns, and does so also when the threshold would
\* overflow before it exceeds m.
\* ------------------------------------------------------------------------
InLoop == op = "num_digits" /\ nd.pc = "loop"

Returned == op = "num_digits" /\ nd.pc = "ret"

C10_Terminates ==
    /\ [][(InLoop /\ InLoop') => /\ Gt(nd'.limit, nd.limit)
                                 /\ nd'.length = nd.length + 1
                                 /\ nd'.length <= WordBits]_vars
    /\ (InLoop ~> Returned)

\* the loop left because the next threshold would not fit, m not yet exceeded
C10_Witness ==
    /\ Returned
    /\ ~Gt(nd.limit, nd.x)
    /\ MulAdd64(nd.limit, nd.base, 0).ovf

====
